---- MODULE Spec2Model ----
(***************************************************************************)
(* A model of llm/memory_manager.py: the MemoryManager conversation store  *)
(* (a dict of conversation records keyed by md5("<session>_<database>"),   *)
(* a per-conversation message window, and eviction ordered by the          *)
(* isoformat string of the last access time) and its read-side helpers.    *)
(*                                                                         *)
(* Conventions.                                                            *)
(*  - Python strings are sequences of one-character strings.               *)
(*  - Python's None is the empty tuple and a present value v is <<v>>.     *)
(*  - A dict is a sequence of entries in insertion order, because the      *)
(*    iteration order of memory_store is what sorted() starts from.        *)
(*  - datetime.utcnow() reads the variable clock, a count of clock ticks;  *)
(*    the wall clock may be advanced or set back between calls.  The four  *)
(*    reads inside one add_message are taken as one instant: line 44       *)
(*    overwrites the value of line 32, and created_at is never compared.   *)
(*  - A message's 'timestamp' field is not kept: only                      *)
(*    _calculate_session_duration and _get_most_active_period read it and  *)
(*    neither is modelled.                                                 *)
(***************************************************************************)
EXTENDS Integers, Sequences, FiniteSets, TLC

VARIABLES
    max_conversations,              \* self.max_conversations
    max_messages_per_conversation,  \* self.max_messages_per_conversation
    memory_store,                   \* self.memory_store, in insertion order
    clock,                          \* what datetime.utcnow() returns now
    result,                         \* the last step: the call and its outcome
    ghost,                          \* history: per key, the add_message calls
                                    \* into the stored record and the clock
                                    \* reading of its last read or write
    removed,                        \* history: the keys whose record was
                                    \* evicted, or cleared, at least once
    threads                         \* the add_message calls in progress when
                                    \* calls run without mutual exclusion

vars == <<max_conversations, max_messages_per_conversation, memory_store,
          clock, result, ghost, removed, threads>>

(***************************************************************************)
(* Bounds of the model.                                                    *)
(***************************************************************************)
\* the clock takes the values 0..MaxClock
MaxClock == 1
\* clock ticks per second (10^6 microseconds in datetime)
TicksPerSecond == 2
\* the constructor arguments (positive integers) range over 1..MaxCap
MaxCap == 2
\* at most MaxAdds add_message calls go into one conversation record
MaxAdds == 3
\* the max_messages argument of the readers ranges over 0..MaxArg
MaxArg == 2
\* a long conversation gets up to MaxBeyond messages more than a helper
\* fetches from it
MaxBeyond == 1

(***************************************************************************)
(* Generic helpers.                                                        *)
(***************************************************************************)
None == <<>>
Some(v) == <<v>>

Min(a, b) == IF a <= b THEN a ELSE b
Max(a, b) == IF a >= b THEN a ELSE b

\* Python's seq[-n:] for n >= 1: the last min(n, len) elements.
LastN(seq, n) == SubSeq(seq, Max(1, Len(seq) - n + 1), Len(seq))

\* seq without its i-th element
RemoveAt(seq, i) == SubSeq(seq, 1, i - 1) \o SubSeq(seq, i + 1, Len(seq))

Range(seq) == {seq[i] : i \in 1..Len(seq)}

(***************************************************************************)
(* datetime.isoformat(): "....:SS" when the microsecond is 0, and          *)
(* "....:SS.ffffff" otherwise.  The fixed-width fields are numbers here,   *)
(* so that comparing two fields is comparing their digits.                 *)
(***************************************************************************)
isoformat(t) ==
    LET sec   == t \div TicksPerSecond
        micro == t % TicksPerSecond
    IN  IF micro = 0 THEN <<sec>> ELSE <<sec, micro>>

\* Python's str < str on isoformat strings: the first differing field
\* decides, and a proper prefix is smaller.
RECURSIVE StrLess(_, _)
StrLess(a, b) ==
    IF a = <<>> THEN b # <<>>
    ELSE IF b = <<>> THEN FALSE
    ELSE IF Head(a) # Head(b) THEN Head(a) < Head(b)
    ELSE StrLess(Tail(a), Tail(b))

StrLeq(a, b) == a = b \/ StrLess(a, b)

(***************************************************************************)
(* Keys.                                                                   *)
(***************************************************************************)
\* hashlib.md5(...).hexdigest(), taken to be injective: the digest is
\* represented by the text it was computed from.
md5(data) == <<"md5">> \o data

\* f"{session_id}_{database}" hashed
ConversationKey(session_id, database) ==
    md5(session_id \o <<"_">> \o database)

(***************************************************************************)
(* The dict memory_store.                                                  *)
(***************************************************************************)
Keys(store) == {store[i].key : i \in 1..Len(store)}

\* conv_key in self.memory_store
Stored(store, k) == k \in Keys(store)

IndexOf(store, k) == CHOOSE i \in 1..Len(store) : store[i].key = k

\* self.memory_store[conv_key]
Lookup(store, k) == store[IndexOf(store, k)]

\* del self.memory_store[conv_key]
Delete(store, k) == RemoveAt(store, IndexOf(store, k))

(***************************************************************************)
(* sorted(self.memory_store.items(), key=lambda x: x[1]['last_accessed']): *)
(* a stable sort, so entries with equal keys stay in insertion order.      *)
(***************************************************************************)
\* mutant: an entry goes in front of the entries it ties with
RECURSIVE InsertSortedTiesFirst(_, _)
InsertSortedTiesFirst(sorted, c) ==
    IF sorted = <<>> THEN <<c>>
    ELSE IF StrLeq(c.last_accessed, Head(sorted).last_accessed)
         THEN <<c>> \o sorted
         ELSE <<Head(sorted)>> \o InsertSortedTiesFirst(Tail(sorted), c)

RECURSIVE InsertSorted(_, _)
InsertSorted(sorted, c) ==
    IF sorted = <<>> THEN <<c>>
    ELSE IF StrLess(c.last_accessed, Head(sorted).last_accessed)
         THEN <<c>> \o sorted
         ELSE <<Head(sorted)>> \o InsertSorted(Tail(sorted), c)

RECURSIVE SortedByLastAccessed(_)
SortedByLastAccessed(store) ==
    IF store = <<>> THEN <<>>
    ELSE InsertSorted(SortedByLastAccessed(SubSeq(store, 1, Len(store) - 1)),
                      store[Len(store)])

\* the while loop of _cleanup_old_conversations: pop the front of the
\* sorted list and delete that key until the store is within the limit.
\* Returns the store left and the entries deleted, in deletion order.
RECURSIVE EvictLoop(_, _, _, _)
EvictLoop(store, conversations, gone, limit) ==
    IF Len(store) > limit /\ conversations # <<>>
    THEN EvictLoop(Delete(store, Head(conversations).key),
                   Tail(conversations),
                   Append(gone, Head(conversations)),
                   limit)
    ELSE [store |-> store, evicted |-> gone]

\* mutant: the sorted list is consumed from its end (pop() for pop(0))
CleanupNewestFirst(store, limit) ==
    LET sorted == SortedByLastAccessed(store)
    IN  IF Len(store) <= limit
        THEN [store |-> store, evicted |-> <<>>]
        ELSE EvictLoop(store,
                       [i \in 1..Len(sorted) |-> sorted[Len(sorted) + 1 - i]],
                       <<>>, limit)

CleanupOldConversations(store, limit) ==
    IF Len(store) <= limit
    THEN [store |-> store, evicted |-> <<>>]
    ELSE EvictLoop(store, SortedByLastAccessed(store), <<>>, limit)

(***************************************************************************)
(* Python str methods on sequences of characters.                          *)
(***************************************************************************)
LowerLetters == <<"a", "b", "c", "d", "e", "f", "g", "h", "i", "j", "k", "l", "m", "n", "o", "p", "q", "r", "s", "t", "u", "v", "w", "x", "y", "z">>
UpperLetters == <<"A", "B", "C", "D", "E", "F", "G", "H", "I", "J", "K", "L", "M", "N", "O", "P", "Q", "R", "S", "T", "U", "V", "W", "X", "Y", "Z">>

LetterIndex(letters, ch) ==
    IF \E i \in 1..Len(letters) : letters[i] = ch
    THEN CHOOSE i \in 1..Len(letters) : letters[i] = ch
    ELSE 0

\* str.lower() and str.upper()
StrLower(str) ==
    [i \in 1..Len(str) |->
        IF LetterIndex(UpperLetters, str[i]) # 0
        THEN LowerLetters[LetterIndex(UpperLetters, str[i])]
        ELSE str[i]]

StrUpper(str) ==
    [i \in 1..Len(str) |->
        IF LetterIndex(LowerLetters, str[i]) # 0
        THEN UpperLetters[LetterIndex(LowerLetters, str[i])]
        ELSE str[i]]

\* str.find(sub) + 1: the first position where sub occurs, 0 when none
StrFind(str, sub) ==
    LET at == {i \in 1..(Len(str) - Len(sub) + 1) :
                   SubSeq(str, i, i + Len(sub) - 1) = sub}
    IN  IF at = {} THEN 0 ELSE CHOOSE i \in at : \A j \in at : i <= j

\* sub in str
StrContains(str, sub) == StrFind(str, sub) # 0

\* str.split(sep): the pieces between the occurrences of sep, left to right
RECURSIVE StrSplit(_, _)
StrSplit(str, sep) ==
    LET i == StrFind(str, sep)
    IN  IF i = 0 THEN <<str>>
        ELSE <<SubSeq(str, 1, i - 1)>>
                 \o StrSplit(SubSeq(str, i + Len(sep), Len(str)), sep)

Whitespace == {" "}

\* str.split(): the maximal runs of non-whitespace characters
RECURSIVE StrSplitWhitespace(_)
StrSplitWhitespace(str) ==
    IF str = <<>> THEN <<>>
    ELSE IF Head(str) \in Whitespace THEN StrSplitWhitespace(Tail(str))
    ELSE LET stops == {i \in 1..Len(str) : str[i] \in Whitespace}
             end   == IF stops = {} THEN Len(str) + 1
                      ELSE CHOOSE i \in stops : \A j \in stops : i <= j
         IN  <<SubSeq(str, 1, end - 1)>>
                 \o StrSplitWhitespace(SubSeq(str, end, Len(str)))

\* str.strip(ch)
RECURSIVE StrStrip(_, _)
StrStrip(str, ch) ==
    IF str = <<>> THEN str
    ELSE IF Head(str) = ch THEN StrStrip(Tail(str), ch)
    ELSE IF str[Len(str)] = ch
         THEN StrStrip(SubSeq(str, 1, Len(str) - 1), ch)
         ELSE str

(***************************************************************************)
(* Python slicing.                                                         *)
(***************************************************************************)
\* seq[-n:] : the last n elements for n >= 1, the whole list for n = 0
\* (-0 is 0), and the list without its first -n elements for n < 0.
SliceFromMinus(seq, n) ==
    IF n = 0 THEN seq
    ELSE IF n > 0 THEN LastN(seq, n)
    ELSE SubSeq(seq, Min(Len(seq), -n) + 1, Len(seq))

(***************************************************************************)
(* add_message, statement by statement.                                    *)
(***************************************************************************)
\* lines 27-33: the record of a new conversation
\* mutant: created_at is a default computed once, when the module loads
NewConversationCreatedAtLoad(conv_key, session_id, database, now) ==
    [key           |-> conv_key,
     session_id    |-> session_id,
     database      |-> database,
     messages      |-> <<>>,
     created_at    |-> isoformat(0),
     last_accessed |-> now]

NewConversation(conv_key, session_id, database, now) ==
    [key           |-> conv_key,
     session_id    |-> session_id,
     database      |-> database,
     messages      |-> <<>>,
     created_at    |-> now,
     last_accessed |-> now]

\* lines 26-33: create the record when the key is absent
EnsureConversation(store, conv_key, session_id, database, now) ==
    IF ~Stored(store, conv_key)
    THEN Append(store, NewConversation(conv_key, session_id, database, now))
    ELSE store

\* lines 35-41: the message dict
NewMessage(role, content, sql_query, results_summary) ==
    [role            |-> role,
     content         |-> content,
     sql_query       |-> sql_query,
     results_summary |-> results_summary]

\* lines 43-44: append the message and set last_accessed
AppendMessage(store, conv_key, message, now) ==
    LET i == IndexOf(store, conv_key)
    IN  [store EXCEPT ![i].messages      = Append(@, message),
                      ![i].last_accessed = now]

\* mutant: the slice keeps the oldest messages (messages[:limit])
LimitMessagesKeepOldest(store, conv_key, limit) ==
    LET i == IndexOf(store, conv_key)
    IN  IF Len(store[i].messages) > limit
        THEN [store EXCEPT ![i].messages = SubSeq(@, 1, limit)]
        ELSE store

\* lines 47-48: keep the last max_messages_per_conversation messages
\* mutant: the window is cut one message short (an off-by-one slice)
LimitMessagesOneShort(store, conv_key, limit) ==
    LET i == IndexOf(store, conv_key)
    IN  IF Len(store[i].messages) > limit
        THEN [store EXCEPT ![i].messages =
                  SubSeq(@, Len(@) - limit + 2, Len(@))]
        ELSE store

LimitMessages(store, conv_key, limit) ==
    LET i == IndexOf(store, conv_key)
    IN  IF Len(store[i].messages) > limit
        THEN [store EXCEPT ![i].messages = SliceFromMinus(@, limit)]
        ELSE store

(***************************************************************************)
(* get_conversation_history (lines 55-67): the store it leaves and the     *)
(* list it returns.                                                        *)
(***************************************************************************)
\* mutant: the read leaves last_accessed alone
TouchConversationSkipped(store, conv_key, now) == store

\* mutant: the read writes the creation time into last_accessed
TouchConversationCreatedAt(store, conv_key, now) ==
    LET i == IndexOf(store, conv_key)
    IN  [store EXCEPT ![i].last_accessed = store[i].created_at]

\* line 63: the read sets last_accessed
TouchConversation(store, conv_key, now) ==
    [store EXCEPT ![IndexOf(store, conv_key)].last_accessed = now]

\* mutant: the slice takes the oldest messages (messages[:max_messages])
RecentMessagesOldest(messages, max_messages) ==
    IF max_messages # 0
    THEN SubSeq(messages, 1, Min(max_messages, Len(messages)))
    ELSE messages

\* line 67: messages[-max_messages:] if max_messages else messages
RecentMessages(messages, max_messages) ==
    IF max_messages # 0 THEN SliceFromMinus(messages, max_messages)
    ELSE messages

\* mutant: a miss creates the record (setdefault for the membership test)
GetConversationHistoryCreating(store, session_id, database, max_messages, now) ==
    LET conv_key == ConversationKey(session_id, database)
        s1 == IF Stored(store, conv_key) THEN store
              ELSE Append(store, [key           |-> conv_key,
                                  session_id    |-> session_id,
                                  database      |-> database,
                                  messages      |-> <<>>,
                                  created_at    |-> now,
                                  last_accessed |-> now])
        i  == IndexOf(s1, conv_key)
    IN  [store   |-> [s1 EXCEPT ![i].last_accessed = now],
         history |-> IF max_messages # 0
                     THEN SliceFromMinus(s1[i].messages, max_messages)
                     ELSE s1[i].messages]

\* mutant: the slice returned is stored back as the conversation's messages
GetConversationHistoryTrimming(store, session_id, database, max_messages, now) ==
    LET conv_key == ConversationKey(session_id, database)
        recent   == RecentMessages(Lookup(store, conv_key).messages,
                                   max_messages)
    IN  IF ~Stored(store, conv_key)
        THEN [store |-> store, history |-> <<>>]
        ELSE [store   |-> [TouchConversation(store, conv_key, now)
                              EXCEPT ![IndexOf(store, conv_key)].messages
                                         = recent],
              history |-> recent]

GetConversationHistory(store, session_id, database, max_messages, now) ==
    LET conv_key == ConversationKey(session_id, database)
    IN  IF ~Stored(store, conv_key)
        THEN [store |-> store, history |-> <<>>]
        ELSE [store   |-> TouchConversation(store, conv_key, now),
              history |-> RecentMessages(Lookup(store, conv_key).messages,
                                         max_messages)]

(***************************************************************************)
(* Program constants of the read-side helpers.                             *)
(***************************************************************************)
\* the default of max_messages (get_conversation_history, line 55)
DefaultMaxMessages == 10
\* get_conversation_summary fetches 5 messages and digests the last 3
SummaryFetch == 5
SummaryLast == 3
\* a table name is accepted when shorter than 50 characters
TableNameLimit == 50

\* the character ` (written as a token: it cannot stand in a string here)
Backtick == "bq"

\* bool(x) of an optional str or dict: None and the empty value are falsy
Truthy(opt) == opt # None /\ DOMAIN opt[1] # {}

\* dict.get(key, default)
DictGet(dict, key, default) ==
    IF key \in DOMAIN dict THEN dict[key] ELSE default

(***************************************************************************)
(* get_schema_learning (lines 90-125).                                     *)
(***************************************************************************)
\* lines 100-109 for one sql_query: the table name it adds, if any, and
\* the IndexError of parts[1].split()[0] when nothing follows 'from'
LearnedTable(sql_query) ==
    LET sql   == StrLower(sql_query)
        from  == <<"f", "r", "o", "m">>
        parts == StrSplit(sql, from)
    IN  IF ~StrContains(sql, from) \/ Len(parts) <= 1
        THEN [raised |-> "none", tables |-> {}]
        ELSE LET tokens == StrSplitWhitespace(parts[2])
             IN  IF tokens = <<>>
                 THEN [raised |-> "IndexError", tables |-> {}]
                 ELSE LET table_part == StrStrip(tokens[1], Backtick)
                      IN  [raised |-> "none",
                           tables |-> IF table_part # <<>>
                                         /\ Len(table_part) < TableNameLimit
                                      THEN {table_part} ELSE {}]

\* the loop of lines 98-119 from message i on; it ends at the first raise
RECURSIVE LearnTables(_, _, _)
LearnTables(history, i, learned_tables) ==
    IF i > Len(history) THEN [raised |-> "none", tables |-> learned_tables]
    ELSE IF ~Truthy(history[i].sql_query)
         THEN LearnTables(history, i + 1, learned_tables)
         ELSE LET t == LearnedTable(history[i].sql_query[1])
              IN  IF t.raised # "none"
                  THEN [raised |-> t.raised, tables |-> learned_tables]
                  ELSE LearnTables(history, i + 1,
                                   learned_tables \cup t.tables)

\* the store the call leaves, what it returns and what it raises
GetSchemaLearning(store, session_id, database, now) ==
    LET r == GetConversationHistory(store, session_id, database,
                                    DefaultMaxMessages, now)
        t == LearnTables(r.history, 1, {})
    IN  [store  |-> r.store,
         raised |-> t.raised,
         ret    |-> IF t.raised # "none" THEN None
                    ELSE Some([tables         |-> t.tables,
                               columns        |-> <<>>,
                               common_filters |-> <<>>])]

(***************************************************************************)
(* get_conversation_insights (lines 224-261), without most_active_period   *)
(* (it is computed from the message timestamps).                           *)
(***************************************************************************)
NoQueryTypes == [SELECT |-> 0, COUNT |-> 0, AGGREGATE |-> 0, FILTER |-> 0]

\* lines 243-249 for one uppercased sql
CountQueryTypes(query_types, sql) ==
    [SELECT    |-> query_types.SELECT + 1,
     COUNT     |-> query_types.COUNT
                       + (IF StrContains(sql, <<"C", "O", "U", "N", "T", "(">>)
                          THEN 1 ELSE 0),
     AGGREGATE |-> query_types.AGGREGATE
                       + (IF \E agg \in {<<"S", "U", "M", "(">>, <<"A", "V", "G", "(">>,
                                         <<"M", "A", "X", "(">>, <<"M", "I", "N", "(">>} :
                                 StrContains(sql, agg)
                          THEN 1 ELSE 0),
     FILTER    |-> query_types.FILTER
                       + (IF StrContains(sql, <<"W", "H", "E", "R", "E">>)
                          THEN 1 ELSE 0)]

\* table_usage[table_part] = table_usage.get(table_part, 0) + 1
CountTable(table_usage, table_part) ==
    [t \in DOMAIN table_usage \cup {table_part} |->
        IF t = table_part THEN DictGet(table_usage, table_part, 0) + 1
        ELSE table_usage[t]]

\* the loop of lines 238-254 from message i on; line 253 raises IndexError
\* when no token follows the first 'FROM'
RECURSIVE AnalyzeQueries(_, _, _, _)
AnalyzeQueries(history, i, query_types, table_usage) ==
    IF i > Len(history)
    THEN [raised |-> "none", query_types |-> query_types,
          table_usage |-> table_usage]
    ELSE IF ~Truthy(history[i].sql_query)
         THEN AnalyzeQueries(history, i + 1, query_types, table_usage)
         ELSE LET sql    == StrUpper(history[i].sql_query[1])
                  from   == <<"F", "R", "O", "M">>
                  types  == CountQueryTypes(query_types, sql)
                  tokens == StrSplitWhitespace(StrSplit(sql, from)[2])
              IN  IF ~StrContains(sql, from)
                  THEN AnalyzeQueries(history, i + 1, types, table_usage)
                  ELSE IF tokens = <<>>
                  THEN [raised |-> "IndexError", query_types |-> types,
                        table_usage |-> table_usage]
                  ELSE AnalyzeQueries(history, i + 1, types,
                           CountTable(table_usage,
                                      StrStrip(tokens[1], Backtick)))

GetConversationInsights(store, session_id, database, now) ==
    LET r == GetConversationHistory(store, session_id, database,
                                    DefaultMaxMessages, now)
        a == AnalyzeQueries(r.history, 1, NoQueryTypes, <<>>)
    IN  [store  |-> r.store,
         raised |-> a.raised,
         ret    |-> IF a.raised # "none" THEN None
                    ELSE Some([query_patterns     |-> a.query_types,
                               table_usage        |-> a.table_usage,
                               total_interactions |->
                                   Cardinality({j \in 1..Len(r.history) :
                                       r.history[j].role = "user"})])]

(***************************************************************************)
(* get_conversation_summary (lines 69-88).  The text is kept as its lines. *)
(***************************************************************************)
NoHistorySentinel == <<[line |-> "No previous conversation history."]>>

\* lines 79-86 for one message
SummaryLinesOf(message) ==
    IF message.role = "user"
    THEN <<[line |-> "User asked", text |-> message.content]>>
             \o (IF Truthy(message.sql_query)
                 THEN <<[line |-> "SQL used", text |-> message.sql_query[1]]>>
                 ELSE <<>>)
    ELSE IF message.role = "assistant" /\ Truthy(message.results_summary)
         THEN <<[line      |-> "Found rows with columns",
                 row_count |-> DictGet(message.results_summary[1],
                                       "row_count", 0),
                 columns   |-> DictGet(message.results_summary[1],
                                       "columns", <<>>)]>>
         ELSE <<>>

RECURSIVE SummaryLines(_)
SummaryLines(messages) ==
    IF messages = <<>> THEN <<>>
    ELSE SummaryLinesOf(Head(messages)) \o SummaryLines(Tail(messages))

\* mutant: the digest is built from all the fetched messages
GetConversationSummaryOfAllFetched(store, session_id, database, now) ==
    LET r == GetConversationHistory(store, session_id, database,
                                    SummaryFetch, now)
    IN  [store  |-> r.store,
         raised |-> "none",
         ret    |-> IF r.history = <<>> THEN NoHistorySentinel
                    ELSE <<[line |-> "Previous conversation context:"]>>
                             \o SummaryLines(r.history)]

GetConversationSummary(store, session_id, database, now) ==
    LET r == GetConversationHistory(store, session_id, database,
                                    SummaryFetch, now)
    IN  [store  |-> r.store,
         raised |-> "none",
         ret    |-> IF r.history = <<>> THEN NoHistorySentinel
                    ELSE <<[line |-> "Previous conversation context:"]>>
                             \o SummaryLines(
                                    SliceFromMinus(r.history, SummaryLast))]

(***************************************************************************)
(* get_formatted_conversation_history (lines 158-201), without the         *)
(* timestamp of an item and stats.session_duration (both come from the     *)
(* message timestamps).                                                    *)
(***************************************************************************)
\* mutant: the look-ahead takes the next message whatever its role
PairedAssistantAnyRole(history, i) ==
    IF i + 1 <= Len(history)
    THEN Some(history[i + 1]) ELSE None

\* lines 179-190: the assistant message right after message i, if any
PairedAssistant(history, i) ==
    IF i + 1 <= Len(history) /\ history[i + 1].role = "assistant"
    THEN Some(history[i + 1]) ELSE None

\* lines 169-190: the item of the user message at position i (message_id
\* is the 0-based index)
HistoryItem(history, i) ==
    LET a == PairedAssistant(history, i)
    IN  [type       |-> "query",
         content    |-> history[i].content,
         sql_query  |-> IF a = None THEN None ELSE a[1].sql_query,
         results    |-> IF a # None /\ Truthy(a[1].results_summary)
                        THEN Some([row_count |->
                                       DictGet(a[1].results_summary[1],
                                               "row_count", 0),
                                   columns |->
                                       DictGet(a[1].results_summary[1],
                                               "columns", <<>>),
                                   execution_time |->
                                       DictGet(a[1].results_summary[1],
                                               "execution_time", 0)])
                        ELSE None,
         message_id |-> i - 1]

RECURSIVE FormatHistory(_, _, _)
FormatHistory(history, i, acc) ==
    IF i > Len(history) THEN acc
    ELSE IF history[i].role # "user" THEN FormatHistory(history, i + 1, acc)
    ELSE LET item == HistoryItem(history, i)
         IN  FormatHistory(history, i + 1,
                 [conversations |-> Append(acc.conversations, item),
                  stats |->
                      IF item.results = None THEN acc.stats
                      ELSE [total_queries |-> acc.stats.total_queries + 1,
                            total_rows_processed |->
                                acc.stats.total_rows_processed
                                    + item.results[1].row_count]])

GetFormattedConversationHistory(store, session_id, database, max_messages, now) ==
    LET r == GetConversationHistory(store, session_id, database,
                                    max_messages, now)
    IN  [store  |-> r.store,
         raised |-> "none",
         ret    |-> FormatHistory(r.history, 1,
                        [conversations |-> <<>>,
                         stats |-> [total_queries        |-> 0,
                                    total_rows_processed |-> 0]])]

(***************************************************************************)
(* clear_conversation (lines 144-149) and clear_all_conversations          *)
(* (lines 151-154).                                                        *)
(***************************************************************************)
\* mutant: the key is computed from the arguments in the wrong order
ClearedConversationSwapped(store, session_id, database) ==
    LET conv_key == ConversationKey(database, session_id)
    IN  IF Stored(store, conv_key) THEN Delete(store, conv_key) ELSE store

ClearedConversation(store, session_id, database) ==
    LET conv_key == ConversationKey(session_id, database)
    IN  IF Stored(store, conv_key) THEN Delete(store, conv_key) ELSE store

ClearedAll(store) == <<>>

(***************************************************************************)
(* The callers' inputs.                                                    *)
(***************************************************************************)
\* session_id and database values, with and without the character '_'
Sessions  == {<<"a">>, <<"a", "_">>}
Databases == {<<"x">>, <<"_", "x">>}
Pairs     == Sessions \X Databases
AllKeys   == {ConversationKey(p[1], p[2]) : p \in Pairs}

\* role, sql_query and results_summary of the messages added under Spec
StoreInputs ==
    {[role |-> "user", sql_query |-> None, results_summary |-> None]}

\* the SQL texts of the messages added under SpecInsight
SqlFilter  == <<"S", "E", "L", "E", "C", "T", " ", "*", " ", "F", "R", "O", "M", " ", "o", "r", "d", "e", "r", "s", " ", "W", "H", "E", "R", "E", " ", "i", "d", "=", "1">>
SqlCount   == <<"S", "E", "L", "E", "C", "T", " ", "C", "O", "U", "N", "T", "(", "*", ")", " ", "F", "R", "O", "M", " ", "o", "r", "d", "e", "r", "s">>
SqlNoTable == <<"s", "e", "l", "e", "c", "t", " ", "x", " ", "f", "r", "o", "m">>

InsightInputs ==
    {[role |-> "user", sql_query |-> None, results_summary |-> None],
     [role |-> "user", sql_query |-> Some(SqlNoTable),
      results_summary |-> None],
     [role |-> "assistant", sql_query |-> Some(SqlFilter),
      results_summary |->
          Some([row_count |-> 3, columns |-> <<"a", "b">>])],
     [role |-> "assistant", sql_query |-> Some(SqlCount),
      results_summary |-> None]}

\* the pair the calls under SpecInsight are made on
InsightPair == <<<<"a">>, <<"x">>>>

(***************************************************************************)
(* The history variable and the record of the last step.                   *)
(***************************************************************************)
NoHistory == [appended |-> 0, accessed_at |-> -1]

\* ghost after a call that read or wrote the keys in touched (at the clock
\* reading now), added added messages to them, and left the store as store
GhostAfter(store, touched, added, now) ==
    [k \in AllKeys |->
        IF ~Stored(store, k) THEN NoHistory
        ELSE IF k \in touched
             THEN [appended    |-> ghost[k].appended + added,
                   accessed_at |-> now]
             ELSE ghost[k]]

\* the entries a call evicted, each with the clock reading of its last
\* read or write (the call's own for the key it wrote)
EvictedWithHistory(evicted, written, now) ==
    [i \in 1..Len(evicted) |->
        [conv        |-> evicted[i],
         accessed_at |-> IF evicted[i].key = written THEN now
                         ELSE ghost[evicted[i].key].accessed_at]]

\* present: conv_key was in memory_store when the call began
Outcome(op, session_id, database, max_messages, present, evicted, ret, raised) ==
    [op           |-> op,
     session_id   |-> session_id,
     database     |-> database,
     max_messages |-> max_messages,
     present      |-> present,
     evicted      |-> evicted,
     ret          |-> ret,
     raised       |-> raised]

Idle == Outcome("none", <<>>, <<>>, 0, FALSE, <<>>, None, "none")

(***************************************************************************)
(* Construction (lines 11-14) and the steps.                               *)
(***************************************************************************)
\* the removals are recorded only in the specifications that start from
\* InitTracked
NotTracked == [tracked |-> FALSE, evicted |-> {}, cleared |-> {}]

\* the record of removals after a call that evicted and cleared these keys
RemovedAfter(evicted, cleared) ==
    IF removed.tracked
    THEN [removed EXCEPT !.evicted = @ \cup evicted,
                         !.cleared = @ \cup cleared]
    ELSE removed

\* the threads that call add_message without mutual exclusion, and a
\* thread that is not in a call
Threads == {1, 2}

NoCall ==
    [pc            |-> "idle",
     session_id    |-> <<>>,
     database      |-> <<>>,
     conversations |-> <<>>,
     raised        |-> "none",
     saw_absent    |-> FALSE,
     began_inside  |-> FALSE]

NoThreads == [t \in Threads |-> NoCall]

Init ==
    /\ max_conversations \in 1..MaxCap
    /\ max_messages_per_conversation \in 1..MaxCap
    /\ memory_store = <<>>
    /\ clock = 0
    /\ result = Idle
    /\ ghost = [k \in AllKeys |-> NoHistory]
    /\ removed = NotTracked
    /\ threads = NoThreads

Config == <<max_conversations, max_messages_per_conversation>>

\* add_message (lines 21-53).  Line 53 formats
\* len(self.memory_store[conv_key]['messages']) and raises KeyError when the
\* cleanup has deleted conv_key.
AddMessage(session_id, database, role, content, sql_query, results_summary) ==
    LET conv_key == ConversationKey(session_id, database)
        now      == isoformat(clock)
        s1 == EnsureConversation(memory_store, conv_key, session_id,
                                 database, now)
        s2 == AppendMessage(s1, conv_key,
                            NewMessage(role, content, sql_query,
                                       results_summary), now)
        s3 == LimitMessages(s2, conv_key, max_messages_per_conversation)
        c  == CleanupOldConversations(s3, max_conversations)
    IN  /\ memory_store' = c.store
        /\ ghost' = GhostAfter(c.store, {conv_key}, 1, clock)
        /\ result' = Outcome("add_message", session_id, database, 0,
                             Stored(memory_store, conv_key),
                             EvictedWithHistory(c.evicted, conv_key, clock),
                             None,
                             IF Stored(c.store, conv_key) THEN "none"
                             ELSE "KeyError")
        /\ removed' = RemovedAfter({c.evicted[i].key :
                                       i \in 1..Len(c.evicted)}, {})
        /\ UNCHANGED <<Config, clock, threads>>

\* the caller numbers the contents it adds to one conversation record
NextContent(session_id, database) ==
    [by |-> <<session_id, database>>,
     n  |-> ghost[ConversationKey(session_id, database)].appended + 1]

AddMessageCall(session_id, database, input) ==
    /\ ghost[ConversationKey(session_id, database)].appended < MaxAdds
    /\ AddMessage(session_id, database, input.role,
                  NextContent(session_id, database),
                  input.sql_query, input.results_summary)

\* a read: the helper's effect on the store, and what the helper returns
ReadCall(op, session_id, database, max_messages, r, ret, raised) ==
    /\ memory_store' = r.store
    /\ ghost' = GhostAfter(r.store, {ConversationKey(session_id, database)},
                           0, clock)
    /\ result' = Outcome(op, session_id, database, max_messages,
                         Stored(memory_store,
                                ConversationKey(session_id, database)),
                         <<>>, ret, raised)
    /\ UNCHANGED <<Config, clock, removed, threads>>

GetConversationHistoryCall(session_id, database, max_messages) ==
    LET r == GetConversationHistory(memory_store, session_id, database,
                                    max_messages, isoformat(clock))
    IN  ReadCall("get_conversation_history", session_id, database,
                 max_messages, r, r.history, "none")

GetConversationSummaryCall(session_id, database) ==
    LET r == GetConversationSummary(memory_store, session_id, database,
                                    isoformat(clock))
    IN  ReadCall("get_conversation_summary", session_id, database,
                 SummaryFetch, r, r.ret, r.raised)

GetSchemaLearningCall(session_id, database) ==
    LET r == GetSchemaLearning(memory_store, session_id, database,
                               isoformat(clock))
    IN  ReadCall("get_schema_learning", session_id, database,
                 DefaultMaxMessages, r, r.ret, r.raised)

GetFormattedConversationHistoryCall(session_id, database, max_messages) ==
    LET r == GetFormattedConversationHistory(memory_store, session_id,
                                             database, max_messages,
                                             isoformat(clock))
    IN  ReadCall("get_formatted_conversation_history", session_id, database,
                 max_messages, r, r.ret, r.raised)

GetConversationInsightsCall(session_id, database) ==
    LET r == GetConversationInsights(memory_store, session_id, database,
                                     isoformat(clock))
    IN  ReadCall("get_conversation_insights", session_id, database,
                 DefaultMaxMessages, r, r.ret, r.raised)

ClearConversation(session_id, database) ==
    LET s1 == ClearedConversation(memory_store, session_id, database)
    IN  /\ memory_store' = s1
        /\ ghost' = GhostAfter(s1, {}, 0, clock)
        /\ result' = Outcome("clear_conversation", session_id, database, 0,
                             Stored(memory_store,
                                    ConversationKey(session_id, database)),
                             <<>>, None, "none")
        /\ removed' = RemovedAfter({}, Keys(memory_store) \ Keys(s1))
        /\ UNCHANGED <<Config, clock, threads>>

ClearAllConversations ==
    LET s1 == ClearedAll(memory_store)
    IN  /\ memory_store' = s1
        /\ ghost' = GhostAfter(s1, {}, 0, clock)
        /\ result' = Outcome("clear_all_conversations", <<>>, <<>>, 0,
                             FALSE, <<>>, None, "none")
        /\ removed' = RemovedAfter({}, Keys(memory_store))
        /\ UNCHANGED <<Config, clock, threads>>

\* the wall clock advances
Tick ==
    /\ clock < MaxClock
    /\ clock' = clock + 1
    /\ result' = Idle
    /\ UNCHANGED <<Config, memory_store, ghost, removed, threads>>

\* the wall clock is set back (datetime.utcnow() is not monotonic)
ClockSetBack ==
    /\ \E t \in 0..(clock - 1) : clock' = t
    /\ result' = Idle
    /\ UNCHANGED <<Config, memory_store, ghost, removed, threads>>

\* the read-side helpers on one pair
HelperCalls(p) ==
    \/ GetConversationSummaryCall(p[1], p[2])
    \/ GetSchemaLearningCall(p[1], p[2])
    \/ GetFormattedConversationHistoryCall(p[1], p[2], DefaultMaxMessages)
    \/ GetConversationInsightsCall(p[1], p[2])

Calls ==
    \/ \E p \in Pairs, input \in StoreInputs : AddMessageCall(p[1], p[2], input)
    \/ \E p \in Pairs, max_messages \in 0..MaxArg :
           GetConversationHistoryCall(p[1], p[2], max_messages)
    \/ HelperCalls(InsightPair)   \* the helpers' store effect is that of
                                  \* get_conversation_history, called on
                                  \* every pair above
    \/ \E p \in Pairs : ClearConversation(p[1], p[2])
    \/ ClearAllConversations

Next == Calls \/ Tick \/ ClockSetBack

Spec == Init /\ [][Next]_vars

\* the same calls under a clock that never goes backwards
NextMonotonic == Calls \/ Tick

SpecMonotonic == Init /\ [][NextMonotonic]_vars

\* one conversation, messages that carry SQL and result digests
InsightCalls ==
    \/ \E input \in InsightInputs :
           AddMessageCall(InsightPair[1], InsightPair[2], input)
    \/ HelperCalls(InsightPair)
    \/ ClearConversation(InsightPair[1], InsightPair[2])

NextInsight == InsightCalls \/ Tick

SpecInsight == Init /\ [][NextInsight]_vars

\* the defaults of __init__ (line 11), which the module's global
\* memory_manager = MemoryManager() (line 290) runs with
DefaultMaxConversations == 10
DefaultMaxMessagesPerConversation == 20

InitDefaults ==
    /\ max_conversations = DefaultMaxConversations
    /\ max_messages_per_conversation = DefaultMaxMessagesPerConversation
    /\ memory_store = <<>>
    /\ clock = 0
    /\ result = Idle
    /\ ghost = [k \in AllKeys |-> NoHistory]
    /\ removed = NotTracked
    /\ threads = NoThreads

\* a caller that stops after cap messages into one conversation record
AddMessageUpTo(cap, session_id, database, input) ==
    /\ ghost[ConversationKey(session_id, database)].appended < cap
    /\ AddMessage(session_id, database, input.role,
                  NextContent(session_id, database),
                  input.sql_query, input.results_summary)

\* more messages than the helpers fetch by default
LongAdds == DefaultMaxMessages + MaxBeyond

LongInputs ==
    {[role |-> "user", sql_query |-> Some(SqlFilter),
      results_summary |-> None],
     [role |-> "assistant", sql_query |-> None, results_summary |-> None]}

\* one long conversation in the default manager
LongCalls ==
    \/ \E input \in LongInputs :
           AddMessageUpTo(LongAdds, InsightPair[1], InsightPair[2], input)
    \/ GetSchemaLearningCall(InsightPair[1], InsightPair[2])
    \/ GetConversationInsightsCall(InsightPair[1], InsightPair[2])

\* the clock stands still: no helper of this conversation compares times
NextLong == LongCalls

SpecLong == InitDefaults /\ [][NextLong]_vars

\* the same construction, with the removals recorded
InitTracked ==
    /\ max_conversations \in 1..MaxCap
    /\ max_messages_per_conversation \in 1..MaxCap
    /\ memory_store = <<>>
    /\ clock = 0
    /\ result = Idle
    /\ ghost = [k \in AllKeys |-> NoHistory]
    /\ removed = [tracked |-> TRUE, evicted |-> {}, cleared |-> {}]
    /\ threads = NoThreads

EverRemoved == removed.evicted \cup removed.cleared

\* a caller that marks the contents it adds once the record of the pair has
\* been removed
ContentAfterRemoval(session_id, database) ==
    [by    |-> <<session_id, database>>,
     n     |-> ghost[ConversationKey(session_id, database)].appended + 1,
     again |-> ConversationKey(session_id, database) \in EverRemoved]

AddMessageAgainCall(session_id, database, input) ==
    /\ ghost[ConversationKey(session_id, database)].appended < MaxAdds
    /\ AddMessage(session_id, database, input.role,
                  ContentAfterRemoval(session_id, database),
                  input.sql_query, input.results_summary)

\* two pairs with different keys
RemovalPairs == {<<<<"a">>, <<"x">>>>, <<<<"a", "_">>, <<"x">>>>}

RemovalCalls ==
    \/ \E p \in RemovalPairs, input \in StoreInputs :
           AddMessageAgainCall(p[1], p[2], input)
    \/ \E p \in RemovalPairs, max_messages \in 0..MaxArg :
           GetConversationHistoryCall(p[1], p[2], max_messages)
    \/ \E p \in RemovalPairs : ClearConversation(p[1], p[2])
    \/ ClearAllConversations

NextRemoval == RemovalCalls \/ Tick \/ ClockSetBack

SpecRemoval == InitTracked /\ [][NextRemoval]_vars

\* more messages than get_conversation_summary fetches
SummaryAdds == SummaryFetch + MaxBeyond

\* one conversation in the default manager, and its summary
SummaryCalls ==
    \/ \E input \in InsightInputs :
           AddMessageUpTo(SummaryAdds, InsightPair[1], InsightPair[2], input)
    \/ GetConversationSummaryCall(InsightPair[1], InsightPair[2])
    \/ ClearConversation(InsightPair[1], InsightPair[2])

NextSummary == SummaryCalls

SpecSummary == InitDefaults /\ [][NextSummary]_vars

(***************************************************************************)
(* add_message called from several threads with no lock around it: each    *)
(* thread runs lines 24-53, and lines 129-141 of the cleanup it calls, one *)
(* statement at a time, and the statements of different threads            *)
(* interleave.  The locals of a call (conv_key, message, conversations)    *)
(* are the thread's; a step is one statement that reads or writes          *)
(* self.memory_store.                                                      *)
(***************************************************************************)
InFlight(t) == threads[t].pc \notin {"idle", "done"}

ThreadKey(t) == ConversationKey(threads[t].session_id, threads[t].database)

\* the message thread t appends: its content names the thread
ThreadMessage(t) ==
    NewMessage("user",
               [by |-> <<threads[t].session_id, threads[t].database>>,
                n  |-> t],
               None, None)

\* mutant: the record is created on every call
KeyAbsentAlways(store, conv_key) == TRUE

\* line 26: conv_key not in self.memory_store
KeyAbsent(store, conv_key) == ~Stored(store, conv_key)

\* self.memory_store[conv_key] = conversation: a key that is stored keeps
\* its place in the dict and gets the new value
AssignConversation(store, conversation) ==
    IF Stored(store, conversation.key)
    THEN [store EXCEPT ![IndexOf(store, conversation.key)] = conversation]
    ELSE Append(store, conversation)

Goto(t, pc) == threads' = [threads EXCEPT ![t].pc = pc]

\* the statement raises: the call ends and the store stays as it is
Raise(t, error) ==
    /\ threads' = [threads EXCEPT ![t].pc = "done", ![t].raised = error]
    /\ UNCHANGED memory_store

ThreadFrame == UNCHANGED <<Config, clock, result, ghost, removed>>

\* thread t calls add_message(session_id, database, 'user', ...): line 24
BeginAddMessage(t, session_id, database) ==
    /\ threads[t].pc = "idle"
    /\ threads' = [threads EXCEPT ![t] =
                      [NoCall EXCEPT !.pc = "line 26",
                                     !.session_id = session_id,
                                     !.database = database,
                                     !.began_inside =
                                         \E u \in Threads \ {t} : InFlight(u)]]
    /\ UNCHANGED memory_store
    /\ ThreadFrame

Line26(t) ==
    /\ threads[t].pc = "line 26"
    /\ threads' = [threads EXCEPT
                      ![t].pc = IF KeyAbsent(memory_store, ThreadKey(t))
                                THEN "line 27" ELSE "line 43",
                      ![t].saw_absent = KeyAbsent(memory_store, ThreadKey(t))]
    /\ UNCHANGED memory_store
    /\ ThreadFrame

Line27(t) ==
    /\ threads[t].pc = "line 27"
    /\ memory_store' = AssignConversation(memory_store,
                           NewConversation(ThreadKey(t), threads[t].session_id,
                                           threads[t].database,
                                           isoformat(clock)))
    /\ Goto(t, "line 43")
    /\ ThreadFrame

\* lines 35-43: the message is built and appended
Line43(t) ==
    /\ threads[t].pc = "line 43"
    /\ IF ~Stored(memory_store, ThreadKey(t)) THEN Raise(t, "KeyError")
       ELSE /\ memory_store' =
                   [memory_store EXCEPT
                       ![IndexOf(memory_store, ThreadKey(t))].messages =
                           Append(@, ThreadMessage(t))]
            /\ Goto(t, "line 44")
    /\ ThreadFrame

Line44(t) ==
    /\ threads[t].pc = "line 44"
    /\ IF ~Stored(memory_store, ThreadKey(t)) THEN Raise(t, "KeyError")
       ELSE /\ memory_store' =
                   [memory_store EXCEPT
                       ![IndexOf(memory_store, ThreadKey(t))].last_accessed =
                           isoformat(clock)]
            /\ Goto(t, "line 47")
    /\ ThreadFrame

Line47(t) ==
    /\ threads[t].pc = "line 47"
    /\ IF ~Stored(memory_store, ThreadKey(t)) THEN Raise(t, "KeyError")
       ELSE /\ Goto(t, IF Len(Lookup(memory_store, ThreadKey(t)).messages)
                              > max_messages_per_conversation
                       THEN "line 48" ELSE "line 129")
            /\ UNCHANGED memory_store
    /\ ThreadFrame

Line48(t) ==
    /\ threads[t].pc = "line 48"
    /\ IF ~Stored(memory_store, ThreadKey(t)) THEN Raise(t, "KeyError")
       ELSE /\ memory_store' =
                   [memory_store EXCEPT
                       ![IndexOf(memory_store, ThreadKey(t))].messages =
                           SliceFromMinus(@, max_messages_per_conversation)]
            /\ Goto(t, "line 129")
    /\ ThreadFrame

\* line 51 enters _cleanup_old_conversations
Line129(t) ==
    /\ threads[t].pc = "line 129"
    /\ Goto(t, IF Len(memory_store) <= max_conversations
               THEN "line 53" ELSE "line 133")
    /\ UNCHANGED memory_store
    /\ ThreadFrame

\* lines 133-136: the sorted snapshot of the store (its keys are what the
\* loop uses)
Line133(t) ==
    /\ threads[t].pc = "line 133"
    /\ threads' = [threads EXCEPT
                      ![t].pc = "line 139",
                      ![t].conversations =
                          LET sorted == SortedByLastAccessed(memory_store)
                          IN  [i \in 1..Len(sorted) |-> sorted[i].key]]
    /\ UNCHANGED memory_store
    /\ ThreadFrame

Line139(t) ==
    /\ threads[t].pc = "line 139"
    /\ Goto(t, IF Len(memory_store) > max_conversations
               THEN "line 140" ELSE "line 53")
    /\ UNCHANGED memory_store
    /\ ThreadFrame

\* lines 140-141: pop(0) raises IndexError on an empty list, del raises
\* KeyError on a key another thread has deleted
Line140(t) ==
    /\ threads[t].pc = "line 140"
    /\ IF threads[t].conversations = <<>> THEN Raise(t, "IndexError")
       ELSE IF ~Stored(memory_store, Head(threads[t].conversations))
       THEN Raise(t, "KeyError")
       ELSE /\ memory_store' = Delete(memory_store,
                                      Head(threads[t].conversations))
            /\ threads' = [threads EXCEPT
                              ![t].pc = "line 139",
                              ![t].conversations = Tail(@)]
    /\ ThreadFrame

Line53(t) ==
    /\ threads[t].pc = "line 53"
    /\ IF ~Stored(memory_store, ThreadKey(t)) THEN Raise(t, "KeyError")
       ELSE Goto(t, "done") /\ UNCHANGED memory_store
    /\ ThreadFrame

ThreadStep(t) ==
    \/ \E p \in RemovalPairs : BeginAddMessage(t, p[1], p[2])
    \/ Line26(t)
    \/ Line27(t)
    \/ Line43(t)
    \/ Line44(t)
    \/ Line47(t)
    \/ Line48(t)
    \/ Line129(t)
    \/ Line133(t)
    \/ Line139(t)
    \/ Line140(t)
    \/ Line53(t)

\* one add_message call per thread on an empty store, any interleaving
NextInterleaved == (\E t \in Threads : ThreadStep(t)) \/ Tick

SpecInterleaved == Init /\ [][NextInterleaved]_vars

(***************************************************************************)
(* Helpers of the properties.                                              *)
(***************************************************************************)
\* the key the last call was made on
ResultKey == ConversationKey(result.session_id, result.database)

\* what get_conversation_history(p, 0) would return in this state
HistoryOf(store, p) ==
    GetConversationHistory(store, p[1], p[2], 0, isoformat(clock)).history

ReadOps ==
    {"get_conversation_history", "get_conversation_summary",
     "get_schema_learning", "get_formatted_conversation_history",
     "get_conversation_insights"}

(***************************************************************************)
(* C1.  After every add_message into a conversation, its stored message    *)
(* count is at most max_messages_per_conversation and the stored messages  *)
(* are exactly the most recent min(n, max_messages_per_conversation) of    *)
(* the n messages appended to it, in call order.                           *)
(***************************************************************************)
C1_WindowKeepsMostRecent ==
    \A i \in 1..Len(memory_store) :
        LET c   == memory_store[i]
            n   == ghost[c.key].appended
            len == Len(c.messages)
        IN  /\ len <= max_messages_per_conversation
            /\ len = Min(n, max_messages_per_conversation)
            /\ \A j \in 1..len : c.messages[j].content.n = n - len + j

\* a third message went into a window of two: the first was dropped
C1_Witness ==
    /\ result.op = "add_message"
    /\ Stored(memory_store, ResultKey)
    /\ ghost[ResultKey].appended = 3
    /\ Len(Lookup(memory_store, ResultKey).messages) = 2

(***************************************************************************)
(* C2.  After every operation the store holds at most max_conversations    *)
(* conversations, and every conversation an eviction removed had, when it  *)
(* was removed, a last_accessed no greater than that of every conversation *)
(* that was kept.                                                          *)
(***************************************************************************)
C2_BoundedAndOldestEvicted ==
    /\ Len(memory_store) <= max_conversations
    /\ \A i \in 1..Len(result.evicted), j \in 1..Len(memory_store) :
           StrLeq(result.evicted[i].conv.last_accessed,
                  memory_store[j].last_accessed)

\* an eviction with two conversations kept, the one inserted first having
\* a strictly later last_accessed than the evicted one
C2_Witness ==
    /\ result.op = "add_message"
    /\ Len(result.evicted) = 1
    /\ Len(memory_store) = 2
    /\ StrLess(result.evicted[1].conv.last_accessed,
               memory_store[1].last_accessed)

(***************************************************************************)
(* C3.  Conversations are isolated per (session_id, database) pair: a      *)
(* message added under one pair never appears in the history of another    *)
(* pair, also for values that contain '_'.                                 *)
(***************************************************************************)
C3_PairsIsolated ==
    \A p \in Pairs :
        \A m \in Range(HistoryOf(memory_store, p)) : m.content.by = p

(***************************************************************************)
(* C4.  add_message never fails and never evicts the conversation it just  *)
(* wrote: afterwards the conversation exists and its last message is the   *)
(* one just appended; another conversation is removed only if the call     *)
(* created a conversation while the store was full, and then exactly one.  *)
(***************************************************************************)
C4_AddMessageKeepsItsConversation ==
    result.op = "add_message" =>
        /\ result.raised = "none"
        /\ Stored(memory_store, ResultKey)
        /\ LET msgs == Lookup(memory_store, ResultKey).messages
           IN  /\ msgs # <<>>
               /\ msgs[Len(msgs)].content =
                      [by |-> <<result.session_id, result.database>>,
                       n  |-> ghost[ResultKey].appended]
        /\ Len(result.evicted) <= 1
        /\ \A i \in 1..Len(result.evicted) :
               /\ result.evicted[i].conv.key # ResultKey
               /\ ~result.present
               /\ Len(memory_store) = max_conversations
        /\ result.present => result.evicted = <<>>

C6_LastAccessedMonotonic ==
    [][\A k \in Keys(memory_store) \cap Keys(memory_store') :
           StrLeq(Lookup(memory_store, k).last_accessed,
                  Lookup(memory_store', k).last_accessed)]_vars

\* a read has moved last_accessed past the creation time
C6_Witness ==
    /\ result.op = "get_conversation_history"
    /\ result.present
    /\ StrLess(Lookup(memory_store, ResultKey).created_at,
               Lookup(memory_store, ResultKey).last_accessed)

(***************************************************************************)
(* C7.  get_conversation_history on a stored key returns the last          *)
(* min(max_messages, stored count) messages in append order for            *)
(* max_messages >= 1 and the whole stored window for max_messages = 0,     *)
(* and leaves the stored message sequence as it was.                       *)
(***************************************************************************)
C7_HistoryReturnsTail ==
    [][(result'.op = "get_conversation_history"
            /\ Stored(memory_store,
                      ConversationKey(result'.session_id, result'.database)))
        => LET k    == ConversationKey(result'.session_id, result'.database)
               msgs == Lookup(memory_store, k).messages
               take == Min(result'.max_messages, Len(msgs))
           IN  /\ Stored(memory_store', k)
               /\ Lookup(memory_store', k).messages = msgs
               /\ result'.max_messages >= 1 =>
                      result'.ret =
                          [j \in 1..take |-> msgs[Len(msgs) - take + j]]
               /\ result'.max_messages = 0 => result'.ret = msgs]_vars

\* one of two stored messages was asked for, and the newer one came back
C7_Witness ==
    /\ result.op = "get_conversation_history"
    /\ result.present
    /\ result.max_messages = 1
    /\ Len(Lookup(memory_store, ResultKey).messages) = 2
    /\ result.ret = <<Lookup(memory_store, ResultKey).messages[2]>>

(***************************************************************************)
(* C8.  get_conversation_history on a key that is not stored returns the   *)
(* empty sequence, raises nothing and leaves the store unchanged.          *)
(***************************************************************************)
C8_MissIsEmptyAndPure ==
    [][(result'.op = "get_conversation_history"
            /\ ~Stored(memory_store,
                       ConversationKey(result'.session_id, result'.database)))
        => /\ result'.ret = <<>>
           /\ result'.raised = "none"
           /\ memory_store' = memory_store]_vars

\* a miss while another conversation is stored
C8_Witness ==
    /\ result.op = "get_conversation_history"
    /\ ~result.present
    /\ ~Stored(memory_store, ResultKey)
    /\ memory_store # <<>>
    /\ result.ret = <<>>

(***************************************************************************)
(* C9.  After clear_conversation the history of that key is empty, and on  *)
(* an absent key it raises nothing and changes nothing; after              *)
(* clear_all_conversations the store is empty, also when it was before.    *)
(***************************************************************************)
C9_ClearIsTotalAndIdempotent ==
    [][/\ result'.op = "clear_conversation" =>
           /\ HistoryOf(memory_store',
                        <<result'.session_id, result'.database>>) = <<>>
           /\ result'.raised = "none"
           /\ ~Stored(memory_store,
                      ConversationKey(result'.session_id, result'.database))
                  => memory_store' = memory_store
       /\ result'.op = "clear_all_conversations" =>
           /\ Len(memory_store') = 0
           /\ result'.raised = "none"]_vars

\* a stored conversation was cleared and another one is still stored
C9_Witness ==
    /\ result.op = "clear_conversation"
    /\ result.present
    /\ ~Stored(memory_store, ResultKey)
    /\ memory_store # <<>>

(***************************************************************************)
(* C10.  A malformed SQL text never makes an insight call fail: for every  *)
(* stored sql_query, also one that ends with the keyword 'from',           *)
(* get_schema_learning and get_conversation_insights return a result       *)
(* instead of raising.                                                     *)
(***************************************************************************)
C10_InsightCallsNeverRaise ==
    result.op \in {"get_schema_learning", "get_conversation_insights"} =>
        /\ result.raised = "none"
        /\ result.ret # None

\* the messages stored for the pair of the last call
StoredMessages == Lookup(memory_store, ResultKey).messages

\* the stored messages that carry a sql_query
WithSql(messages) ==
    {i \in 1..Len(messages) : Truthy(messages[i].sql_query)}

(***************************************************************************)
(* C11.  Insights and schema learning cover every message stored in the    *)
(* conversation window, also when it holds more than 10 messages:          *)
(* get_conversation_insights reports SELECT equal to the number of stored  *)
(* messages with a sql_query and total_interactions equal to the number of *)
(* stored user messages, and get_schema_learning's tables contain the      *)
(* table of each stored sql_query.                                         *)
(***************************************************************************)
C11_InsightsCoverWholeWindow ==
    (result.present /\ result.raised = "none") =>
        /\ result.op = "get_conversation_insights" =>
               /\ result.ret[1].query_patterns.SELECT
                      = Cardinality(WithSql(StoredMessages))
               /\ result.ret[1].total_interactions
                      = Cardinality({i \in 1..Len(StoredMessages) :
                                        StoredMessages[i].role = "user"})
        /\ result.op = "get_schema_learning" =>
               \A i \in WithSql(StoredMessages) :
                   LearnedTable(StoredMessages[i].sql_query[1]).tables
                       \subseteq result.ret[1].tables

\* the table names get_schema_learning returns in this state for pair p
LearnedTablesOf(store, p) ==
    GetSchemaLearning(store, p[1], p[2], isoformat(clock))

\* the sql_query values of the messages, in order
Queries(messages) ==
    LET RECURSIVE Collect(_)
        Collect(i) ==
            IF i > Len(messages) THEN <<>>
            ELSE (IF Truthy(messages[i].sql_query)
                  THEN <<messages[i].sql_query[1]>> ELSE <<>>)
                     \o Collect(i + 1)
    IN  Collect(1)

(***************************************************************************)
(* C12.  get_conversation_insights tallies table usage under the table     *)
(* names that get_schema_learning extracts: table_usage has exactly the    *)
(* learned tables as keys, each mapped to the number of stored queries     *)
(* whose first token after FROM is that table; the spec's two example     *)
(* queries on orders (SqlFilter, SqlCount) give SELECT = 2, FILTER = 1,    *)
(* COUNT = 1 and table_usage = {orders: 2}.                                *)
(***************************************************************************)
C12_TableUsageUnderLearnedNames ==
    (result.op = "get_conversation_insights" /\ result.present
         /\ result.raised = "none") =>
        LET learned == LearnedTablesOf(memory_store,
                                       <<result.session_id, result.database>>)
            queries == Queries(StoredMessages)
            usage   == result.ret[1].table_usage
        IN  /\ learned.raised = "none" =>
                /\ DOMAIN usage = learned.ret[1].tables
                /\ \A t \in learned.ret[1].tables :
                       usage[t] = Cardinality({i \in 1..Len(queries) :
                                      LearnedTable(queries[i]).tables = {t}})
            /\ queries = <<SqlFilter, SqlCount>> =>
                /\ result.ret[1].query_patterns.SELECT = 2
                /\ result.ret[1].query_patterns.FILTER = 1
                /\ result.ret[1].query_patterns.COUNT = 1
                /\ usage = [t \in {<<"o", "r", "d", "e", "r", "s">>} |-> 2]

\* the history the last call fetched: the reads leave the messages alone
FetchedHistory ==
    IF Stored(memory_store, ResultKey)
    THEN RecentMessages(StoredMessages, result.max_messages)
    ELSE <<>>

\* the position in history of its k-th user message
UserPosition(history, k) ==
    CHOOSE i \in 1..Len(history) :
        /\ history[i].role = "user"
        /\ Cardinality({j \in 1..i : history[j].role = "user"}) = k

RECURSIVE SumRowCounts(_)
SumRowCounts(items) ==
    IF items = <<>> THEN 0
    ELSE (IF Head(items).results = None THEN 0
          ELSE Head(items).results[1].row_count)
             + SumRowCounts(Tail(items))

(***************************************************************************)
(* C13.  get_formatted_conversation_history returns one item per user      *)
(* message of the fetched history, in order, and none for assistant        *)
(* messages; an item carries the sql_query and results of the message      *)
(* right after its user message only when that message is an assistant     *)
(* message; total_queries is the number of items with results and          *)
(* total_rows_processed the sum of their row_count.                        *)
(***************************************************************************)
C13_OneItemPerUserMessage ==
    result.op = "get_formatted_conversation_history" =>
        LET history == FetchedHistory
            items   == result.ret.conversations
            users   == {i \in 1..Len(history) : history[i].role = "user"}
        IN  /\ Len(items) = Cardinality(users)
            /\ \A k \in 1..Len(items) :
                   LET i == UserPosition(history, k)
                   IN  /\ items[k].content = history[i].content
                       /\ items[k].message_id = i - 1
                       /\ IF i < Len(history)
                             /\ history[i + 1].role = "assistant"
                          THEN /\ items[k].sql_query = history[i + 1].sql_query
                               /\ (items[k].results # None)
                                      = Truthy(history[i + 1].results_summary)
                               /\ items[k].results # None =>
                                      /\ items[k].results[1].row_count
                                             = history[i + 1].results_summary[1].row_count
                                      /\ items[k].results[1].columns
                                             = history[i + 1].results_summary[1].columns
                          ELSE /\ items[k].sql_query = None
                               /\ items[k].results = None
            /\ result.ret.stats.total_queries
                   = Cardinality({k \in 1..Len(items) : items[k].results # None})
            /\ result.ret.stats.total_rows_processed = SumRowCounts(items)

\* the round trip: a user message, then an assistant message with
\* results_summary {row_count: 3, columns: [a, b]}
C13_Witness ==
    /\ result.op = "get_formatted_conversation_history"
    /\ Len(FetchedHistory) = 2
    /\ FetchedHistory[1].role = "user"
    /\ FetchedHistory[2].role = "assistant"
    /\ Len(result.ret.conversations) = 1
    /\ result.ret.conversations[1].results
           = Some([row_count |-> 3, columns |-> <<"a", "b">>,
                   execution_time |-> 0])
    /\ result.ret.stats = [total_queries |-> 1, total_rows_processed |-> 3]

IsUser(message) == message.role = "user"
IsAssistantWithResults(message) ==
    message.role = "assistant" /\ Truthy(message.results_summary)
IsUserLine(l) == l.line = "User asked"
IsSqlLine(l) == l.line = "SQL used"
IsRowsLine(l) == l.line = "Found rows with columns"

\* the position in lines of its k-th "User asked" line
UserLinePosition(lines, k) ==
    CHOOSE j \in 1..Len(lines) :
        /\ IsUserLine(lines[j])
        /\ Cardinality({i \in 1..j : IsUserLine(lines[i])}) = k

(***************************************************************************)
(* C14.  get_conversation_summary returns the no-history sentinel exactly  *)
(* when the key has no stored messages.  Otherwise the text is built from  *)
(* the last 3 stored messages only: one "User asked" line per user message *)
(* among them, followed by a "SQL used" line if and only if that message   *)
(* has a non-empty sql_query, and one row-count line per assistant message *)
(* among them that has a results_summary.                                  *)
(***************************************************************************)
C14_SummaryOfLastThree ==
    result.op = "get_conversation_summary" =>
        LET stored == IF Stored(memory_store, ResultKey)
                      THEN StoredMessages ELSE <<>>
            last   == SubSeq(stored, Max(1, Len(stored) - 2), Len(stored))
            users  == SelectSeq(last, IsUser)
            found  == SelectSeq(last, IsAssistantWithResults)
            lines  == Tail(result.ret)
            asked  == SelectSeq(lines, IsUserLine)
            rows   == SelectSeq(lines, IsRowsLine)
        IN  /\ (result.ret = NoHistorySentinel) = (stored = <<>>)
            /\ stored # <<>> =>
                /\ \A j \in 1..Len(lines) :
                       IsUserLine(lines[j]) \/ IsSqlLine(lines[j])
                           \/ IsRowsLine(lines[j])
                /\ Len(asked) = Len(users)
                /\ \A k \in 1..Len(asked) :
                       LET j == UserLinePosition(lines, k)
                       IN  /\ asked[k].text = users[k].content
                           /\ (j < Len(lines) /\ IsSqlLine(lines[j + 1]))
                                  = Truthy(users[k].sql_query)
                           /\ Truthy(users[k].sql_query) =>
                                  lines[j + 1].text = users[k].sql_query[1]
                /\ \A j \in 1..Len(lines) :
                       IsSqlLine(lines[j]) =>
                           j > 1 /\ IsUserLine(lines[j - 1])
                /\ Len(rows) = Len(found)
                /\ \A k \in 1..Len(rows) :
                       /\ rows[k].row_count = found[k].results_summary[1].row_count
                       /\ rows[k].columns = found[k].results_summary[1].columns

\* a summary of a conversation of more than 3 messages whose first message
\* is a user message with SQL that the digest leaves out, while the last 3
\* give a user line with SQL, a user line without and a row-count line
C14_Witness ==
    /\ result.op = "get_conversation_summary"
    /\ result.present
    /\ Len(StoredMessages) > SummaryFetch
    /\ IsUser(StoredMessages[1]) /\ Truthy(StoredMessages[1].sql_query)
    /\ \A j \in 1..Len(result.ret) :
           IsUserLine(result.ret[j]) =>
               result.ret[j].text # StoredMessages[1].content
    /\ Len(SelectSeq(result.ret, IsUserLine)) = 2
    /\ Len(SelectSeq(result.ret, IsSqlLine)) = 1
    /\ Len(SelectSeq(result.ret, IsRowsLine)) = 1

(***************************************************************************)
(* C15.  Among conversations with identical last_accessed values eviction  *)
(* removes in the insertion order of the store (a key removed and added    *)
(* again counts from its re-addition): a conversation evicted by           *)
(* add_message stood in the store before every kept conversation with the  *)
(* same last_accessed, and the conversation the call created is the last   *)
(* candidate even when its last_accessed ties.                             *)
(***************************************************************************)
C15_TiesEvictInInsertionOrder ==
    [][result'.op = "add_message" =>
          \A e \in 1..Len(result'.evicted), c \in 1..Len(memory_store') :
              LET gone == result'.evicted[e].conv
                  kept == memory_store'[c]
              IN  gone.last_accessed = kept.last_accessed =>
                      /\ Stored(memory_store, gone.key)
                      /\ Stored(memory_store, kept.key) =>
                             IndexOf(memory_store, gone.key)
                                 < IndexOf(memory_store, kept.key)]_vars

\* an eviction that chose among three tied conversations: an older kept
\* one and the one the call created
C15_Witness ==
    /\ result.op = "add_message"
    /\ ~result.present
    /\ Len(result.evicted) = 1
    /\ Len(memory_store) = 2
    /\ \A c \in 1..Len(memory_store) :
           memory_store[c].last_accessed
               = result.evicted[1].conv.last_accessed

(***************************************************************************)
(* C18.  A read (get_conversation_history, get_conversation_summary,       *)
(* get_schema_learning, get_formatted_conversation_history,                *)
(* get_conversation_insights) changes nothing in the store except the      *)
(* last_accessed of the queried conversation: the stored keys and their    *)
(* order, every message sequence and created_at, and the last_accessed of  *)
(* every other conversation stay as they were, and nothing is evicted.     *)
(***************************************************************************)
C18_ReadsOnlyTouchLastAccessed ==
    [][result'.op \in ReadOps =>
          /\ Len(memory_store') = Len(memory_store)
          /\ \A i \in 1..Len(memory_store) :
                 IF memory_store[i].key
                        = ConversationKey(result'.session_id, result'.database)
                 THEN memory_store'[i]
                          = [memory_store[i] EXCEPT !.last_accessed
                                 = memory_store'[i].last_accessed]
                 ELSE memory_store'[i] = memory_store[i]]_vars

\* a helper has read one of two stored conversations, at a later time than
\* the other's last access, and the conversation read holds two messages
C18_Witness ==
    /\ result.op = "get_conversation_insights"
    /\ result.present
    /\ Len(memory_store) = 2
    /\ Len(StoredMessages) = 2
    /\ \E i \in 1..Len(memory_store) :
           /\ memory_store[i].key # ResultKey
           /\ StrLess(memory_store[i].last_accessed,
                      Lookup(memory_store, ResultKey).last_accessed)

(***************************************************************************)
(* C19.  With max_messages_per_conversation >= 1 every conversation record *)
(* in the store holds at least one message, so get_conversation_history    *)
(* returns the empty sequence if and only if the key is not stored.        *)
(***************************************************************************)
C19_NoEmptyConversation ==
    max_messages_per_conversation >= 1 =>
        /\ \A i \in 1..Len(memory_store) : memory_store[i].messages # <<>>
        /\ \A p \in Pairs, max_messages \in 0..MaxArg :
               (GetConversationHistory(memory_store, p[1], p[2], max_messages,
                                       isoformat(clock)).history = <<>>)
                   = ~Stored(memory_store, ConversationKey(p[1], p[2]))

\* a record that was trimmed down to the smallest window and is still not
\* empty, next to a pair that is not stored
C19_Witness ==
    /\ result.op = "add_message"
    /\ max_messages_per_conversation = 1
    /\ Stored(memory_store, ResultKey)
    /\ ghost[ResultKey].appended > 1
    /\ Len(StoredMessages) = 1
    /\ \E p \in Pairs :
           /\ ~Stored(memory_store, ConversationKey(p[1], p[2]))
           /\ HistoryOf(memory_store, p) = <<>>

(***************************************************************************)
(* C17.  A removed conversation is never resurrected: after its record was *)
(* evicted or cleared, the next add_message for the same pair creates a    *)
(* fresh record whose created_at is the time of that call and whose        *)
(* messages are exactly the one new message, and no reader returns a       *)
(* message that was stored before the removal.                             *)
(***************************************************************************)
C17_RemovedIsNeverResurrected ==
    [][LET conv_key == ConversationKey(result'.session_id, result'.database)
       IN  /\ (result'.op = "add_message" /\ ~result'.present
                   /\ conv_key \in EverRemoved
                   /\ Stored(memory_store', conv_key)) =>
                  LET conversation == Lookup(memory_store', conv_key)
                  IN  /\ conversation.created_at = isoformat(clock)
                      /\ Len(conversation.messages) = 1
                      /\ conversation.messages[1].content
                             = [by    |-> <<result'.session_id,
                                            result'.database>>,
                                n     |-> 1,
                                again |-> TRUE]
           /\ (result'.op = "get_conversation_history"
                   /\ conv_key \in EverRemoved) =>
                  \A j \in 1..Len(result'.ret) :
                      result'.ret[j].content.again]_vars

\* a pair whose record was evicted once and cleared once has been added to
\* again, at a later clock reading than the start, and holds one message
C17_Witness ==
    /\ result.op = "add_message"
    /\ ~result.present
    /\ ResultKey \in removed.evicted
    /\ ResultKey \in removed.cleared
    /\ clock > 0
    /\ Stored(memory_store, ResultKey)
    /\ Lookup(memory_store, ResultKey).created_at = isoformat(clock)
    /\ Len(StoredMessages) = 1

\* a call began while another call was in progress: the run is not one in
\* which each call runs atomically
Overlapped == \E t \in Threads : threads[t].began_inside

\* all the threads have finished add_message on one key, and the record of
\* that key does not hold the messages of all of them (as far as the window
\* has room)
MessageMissing ==
    /\ \A t \in Threads : threads[t].pc = "done"
    /\ \A t \in Threads : ThreadKey(t) = ThreadKey(1)
    /\ \/ ~Stored(memory_store, ThreadKey(1))
       \/ Len(Lookup(memory_store, ThreadKey(1)).messages)
              < Min(Cardinality(Threads), max_messages_per_conversation)

(***************************************************************************)
(* C16.  The store is not safe without the external lock.  Two add_message *)
(* calls interleaved statement by statement on the same key, not stored    *)
(* yet, can both pass the 'key absent' check before either inserts the     *)
(* record, and then one of the two appended messages is missing; when each *)
(* call runs atomically no such state is reached: a message is missing     *)
(* only in runs where the calls overlapped.                                *)
(***************************************************************************)
C16_MessageLostOnlyWhenInterleaved == MessageMissing => Overlapped

\* the lost update: both calls passed the check of line 26, both returned
\* without an exception, the window has room for two messages and the
\* record holds one
C16_Witness ==
    /\ MessageMissing
    /\ \A t \in Threads :
           threads[t].saw_absent /\ threads[t].raised = "none"
    /\ max_messages_per_conversation >= Cardinality(Threads)
    /\ Stored(memory_store, ThreadKey(1))
    /\ Len(Lookup(memory_store, ThreadKey(1)).messages) = 1

====
